---- MODULE Spec2Model ----
(***************************************************************************)
(* The validator of the prediction subnet (prediction/validator/           *)
(* validation.py): the sqlite store with its two tables, the three         *)
(* periodic loops started by validation_loop, the dispatch round           *)
(* (send_request), the truth backfill (get_price_loop) and the scoring     *)
(* cycle (set_weights, _set_weights).                                      *)
(*                                                                         *)
(* Time is counted in ticks of 60 seconds, the greatest common divisor of  *)
(* every period of the program.  Prices and predictions are small          *)
(* integers; a mean is an exact rational [n, d]; a weight is an integer    *)
(* number of millionths (WeightScale).                                     *)
(***************************************************************************)
EXTENDS Integers, Sequences, FiniteSets, TLC

\* ------------------------------------------------------------------ bounds
MaxTime == 4        \* the clock stops here
MaxTasks == 2       \* dispatch rounds (rows of prices) per behaviour
MaxValue == 1       \* prices and numeric answers are drawn from 1..MaxValue
MaxScoredTasks == 2 \* rows of prices in a persisted store
MaxAnswer == 3      \* numeric answers of a persisted store: 1..MaxAnswer
Horizon == 3        \* hours_ahead * 3600 seconds, reduced to a few ticks
MaxBlock == 1       \* requests.get returns after 0..MaxBlock ticks

\* ------------------------------------------------------- program constants
iteration_interval == 2         \* 120 s
max_allowed_weights == 800
weighting_period == 4           \* 240 s
get_real_data_interval == 1     \* 60 s
GraceBuffer == 3                \* 3*60 s
MinAhead == 1                   \* random.randint(60, ...)
call_timeout == 1               \* 60 s
Worst == 10000000
MissingFactor == 5
steepness == 10

ExpScale == 100                 \* fixed point of exp: hundredths
SigmoidScale == 1000000         \* fixed point of sigmoid and of the weights
WeightScale == SigmoidScale

category == "crypto"
pair == "BTCUSDT"

\* ------------------------------------------------------------ Python values
PyNone == [k |-> "none", v |-> 0, s |-> ""]
PyNum(x) == [k |-> "num", v |-> x, s |-> ""]
PyText(t) == [k |-> "text", v |-> 0, s |-> t]
PyList == [k |-> "list", v |-> 0, s |-> ""]
NULL == PyNone
Sentinel == PyNum(-1)

Values == 1..MaxValue

Abs(x) == IF x < 0 THEN -x ELSE x

\* --------------------------------------------------------- exact rationals
Rat(a, b) == [n |-> a, d |-> b]
RatEq(a, b) == a.n * b.d = b.n * a.d
RatLess(a, b) == a.n * b.d < b.n * a.d
RatSub(a, b) == Rat(a.n * b.d - b.n * a.d, a.d * b.d)
RatDiv(a, b) == Rat(a.n * b.d, a.d * b.n)

RECURSIVE Gcd(_, _)
Gcd(a, b) == IF b = 0 THEN a ELSE Gcd(b, a % b)
RatNorm(a) == LET g == Gcd(Abs(a.n), a.d) IN Rat(a.n \div g, a.d \div g)

\* ---------------------------------------------------------------- the ledger
ValKey == "val"
Ids == 0..2
\* an address is a string, character by character
GoodAddr == <<"1", "0", ".", "0", ".", "0", ".", "1", ":", "8", "0">>
BadAddr == <<"l", "o", "c", "a", "l", "h", "o", "s", "t">>
UrlAddr == <<"h", "t", "t", "p", ":", "/", "/">> \o GoodAddr \o <<"/">>
NoPortAddr == <<"1", "0", ".", "0", ".", "0", ".", "1">>
LongOctetAddr == <<"1", "2", "3", "4", ".", "0", ".", "0", ".", "1", ":", "8", "0">>
NoOctetAddr == <<"1", "0", ".", ".", "0", ".", "1", ":", "8", "0">>

RegNormal == [keys |-> (0 :> "val" @@ 1 :> "A" @@ 2 :> "B"),
              addrs |-> (0 :> GoodAddr @@ 1 :> GoodAddr @@ 2 :> GoodAddr)]
RegDupKey == [keys |-> (0 :> "val" @@ 1 :> "A" @@ 2 :> "A"),
              addrs |-> (0 :> GoodAddr @@ 1 :> GoodAddr @@ 2 :> GoodAddr)]
RegNoVal == [keys |-> (1 :> "A" @@ 2 :> "B"),
             addrs |-> (1 :> GoodAddr @@ 2 :> GoodAddr)]
RegThree == [keys |-> (0 :> "val" @@ 1 :> "A" @@ 2 :> "B" @@ 3 :> "C"),
             addrs |-> (0 :> GoodAddr @@ 1 :> GoodAddr @@ 2 :> GoodAddr
                        @@ 3 :> GoodAddr)]
RegNoAddr == [keys |-> (0 :> "val" @@ 1 :> "A" @@ 2 :> "B"),
              addrs |-> (0 :> GoodAddr @@ 1 :> GoodAddr @@ 2 :> BadAddr)]
\* id 1 embeds its address in a URL, id 2 gives no port, id 3 has a key and
\* no address, id 4 an address and no key, id 5 an empty octet, id 6 an
\* octet of four digits
RegAddrs == [keys |-> (0 :> "val" @@ 1 :> "A" @@ 2 :> "B" @@ 3 :> "C"
                       @@ 5 :> "B" @@ 6 :> "C"),
             addrs |-> (0 :> GoodAddr @@ 1 :> UrlAddr @@ 2 :> NoPortAddr
                        @@ 4 :> GoodAddr @@ 5 :> NoOctetAddr
                        @@ 6 :> LongOctetAddr)]
Registries == {RegNormal, RegDupKey, RegNoVal, RegNoAddr, RegAddrs}

EmptyFun == [x \in {} |-> 0]

Loops == {"send_request", "set_weights", "get_price"}

VARIABLES now, prices, predictions, ledger, pc, start_time, wake, round,
          lastRound, scoring, input

vars == <<now, prices, predictions, ledger, pc, start_time, wake, round,
          lastRound, scoring, input>>


\* ------------------------------------------------------------- the store
\* INSERT INTO prices (timestamp, category, pair): no key, price is NULL
insert_into_prices(tbl, timestamp, cat, pr) ==
    Append(tbl, [timestamp |-> timestamp, category |-> cat, pair |-> pr,
                 price |-> NULL])

\* what sqlite3 does with the bound parameter: a list cannot be bound
Bindable(value) == value.k # "list"

\* the value insert_prediction binds: None, 'None' and '' become -1
NormalizePrediction(prediction) ==
    IF prediction = PyNone \/ prediction = PyText("None") \/ prediction = PyText("")
    THEN Sentinel
    ELSE prediction

\* INSERT INTO predictions VALUES (?,?,?,?,?): no key
insert_prediction(tbl, timestamp, miner_key, prediction, cat, pr) ==
    Append(tbl, [timestamp |-> timestamp, miner_key |-> miner_key,
                 prediction |-> NormalizePrediction(prediction),
                 category |-> cat, pair |-> pr])

\* ------------------------------------------------------- the peer directory
Digits == {"0", "1", "2", "3", "4", "5", "6", "7", "8", "9"}

\* how many digits the string has in a row from position i on
RECURSIVE DigitRun(_, _)
DigitRun(string, i) ==
    IF i <= Len(string) /\ string[i] \in Digits
    THEN 1 + DigitRun(string, i + 1)
    ELSE 0

\* IP_REGEX = \d{1,3}\.\d{1,3}\.\d{1,3}\.\d{1,3}:\d+ matched from position i
\* with k groups \d{1,3} left: the position after the match, or 0.  A run
\* of more than three digits cannot be followed by its separator.  (n, the
\* length of the run of digits at i, is bound as a value.)
RECURSIVE MatchEnd(_, _, _)
MatchEnd(string, i, k) ==
    CHOOSE end \in
        {IF n < 1 \/ n > 3 \/ i + n > Len(string) THEN 0
         ELSE IF string[i + n] # (IF k > 1 THEN "." ELSE ":") THEN 0
         ELSE IF k > 1 THEN MatchEnd(string, i + n + 1, k - 1)
         ELSE IF DigitRun(string, i + n + 1) = 0 THEN 0
         ELSE i + n + 1 + DigitRun(string, i + n + 1) :
             n \in {DigitRun(string, i)}} : TRUE

\* re.search(IP_REGEX, string) from the position i on: the leftmost match,
\* or <<>> for None
RECURSIVE SearchFrom(_, _)
SearchFrom(string, i) ==
    IF i > Len(string) THEN <<>>
    ELSE IF MatchEnd(string, i, 4) # 0
    THEN SubSeq(string, i, MatchEnd(string, i, 4) - 1)
    ELSE SearchFrom(string, i + 1)

extract_address(string) == SearchFrom(string, 1)

\* x.group(0).split(":"): the match has exactly one ":"
SplitAddress(match) ==
    LET c == CHOOSE i \in 1..Len(match) : match[i] = ":"
    IN  <<SubSeq(match, 1, c - 1), SubSeq(match, c + 1, Len(match))>>

get_ip_port(modules_adresses) ==
    [id \in {i \in DOMAIN modules_adresses :
                extract_address(modules_adresses[i]) # <<>>} |->
        SplitAddress(extract_address(modules_adresses[id]))]

\* send_request without its line 376: the validator's own key is kept
ModulesInfo_with_self(modules_adresses, modules_keys) ==
    [id \in DOMAIN modules_keys \cap DOMAIN get_ip_port(modules_adresses) |->
        modules_keys[id]]

\* send_request, lines 364-376: the polled peers, id -> identity key
ModulesInfo(modules_adresses, modules_keys) ==
    [id \in {i \in DOMAIN modules_keys \cap DOMAIN get_ip_port(modules_adresses) :
                modules_keys[i] # ValKey} |->
        modules_keys[id]]

\* the test of send_request left out
Registered_unchecked(modules_keys) == modules_keys = modules_keys

\* send_request, lines 360-362: val_ss58 in modules_keys.values()
Registered(modules_keys) == \E id \in DOMAIN modules_keys : modules_keys[id] = ValKey

\* ------------------------------------------------------------ a peer's reply
\* o: the outcome of client.call; a: the value under "answer" when there is one
Answers == {PyNum(x) : x \in Values} \cup
           {PyNone, PyText("None"), PyText(""), PyText("abc"), PyList}
Responses == [o : {"ok"}, a : Answers] \cup
             [o : {"raise", "timeout", "nokey"}, a : {PyNone}]

\* _get_miner_prediction: every exception of the call, and a reply without
\* the key "answer", give None
_get_miner_prediction(resp) == IF resp.o = "ok" THEN resp.a ELSE PyNone

\* the peers whose call raised, timed out, or whose reply has no numeric
\* scalar under "answer"
Failed(resp) == {id \in DOMAIN resp : resp[id].o # "ok" \/ resp[id].a.k # "num"}

\* the rows send_request stores for the replies of the peers ids (ascending),
\* up to the first value sqlite3 cannot bind
RECURSIVE StoreAnswers(_, _, _, _, _)
StoreAnswers(tbl, ids, info, resp, ts) ==
    IF ids = {} THEN [tbl |-> tbl, raised |-> FALSE]
    ELSE LET id == CHOOSE i \in ids : \A j \in ids : i <= j
             predicted_value == _get_miner_prediction(resp[id])
         IN  IF ~Bindable(NormalizePrediction(predicted_value))
             THEN [tbl |-> tbl, raised |-> TRUE]
             ELSE StoreAnswers(
                      insert_prediction(tbl, ts, info[id], predicted_value,
                                        category, pair),
                      ids \ {id}, info, resp, ts)

\* ---------------------------------------------------------------- the loops
\* arrived: the replies of the polled peers, <<id, reply>>, in the order of
\* their arrival
NoRound == [ts |-> 0, info |-> EmptyFun, arrived |-> <<>>]
NoLastRound == [state |-> "none", ts |-> 0, info |-> EmptyFun, failed |-> {},
                returned |-> EmptyFun, first |-> 0, order |-> <<>>]
NoScoring == [ran |-> FALSE, at |-> 0, stats |-> EmptyFun, raw |-> EmptyFun,
              scores |-> EmptyFun, voted |-> FALSE, vote |-> EmptyFun]
\* input: the arguments a single call is studied with (SpecCalls); the loops
\* never read it
NoInput == [clock |-> 0, random_seconds |-> 0, prediction |-> PyNone]

Init ==
    /\ now = 0
    /\ prices = <<>>
    /\ predictions = <<>>
    /\ ledger \in Registries
    /\ pc = [l \in Loops |-> "new"]
    /\ start_time = [l \in Loops |-> 0]
    /\ wake = [l \in Loops |-> 0]
    /\ round = NoRound
    /\ lastRound = NoLastRound
    /\ scoring = NoScoring
    /\ input = NoInput

\* the period of each loop
Period(l) == CASE l = "send_request" -> iteration_interval
               [] l = "set_weights" -> weighting_period
               [] l = "get_price" -> get_real_data_interval

Running == \A l \in Loops : pc[l] \in {"new", "sleep", "await", "ready"}

\* "ready": the iteration ended after its period or later, so the loop goes
\* on with its next iteration without awaiting anything
Due(l) == \/ pc[l] \in {"new", "sleep"} /\ wake[l] <= now
          \/ pc[l] = "ready"

\* a loop that has not awaited keeps the thread: no other coroutine runs
\* (a dispatch loop that the bound MaxTasks stops does not count)
Turn(l) ==
    \A m \in Loops \ {l} :
        pc[m] = "ready" => m = "send_request" /\ Len(prices) >= MaxTasks

\* an exception leaves the loop's coroutine: the task ends
Raise(l) == pc' = [pc EXCEPT ![l] = "crashed"]

\* the end, at the time end, of an iteration that started at the time s:
\* sleep the remainder of the period, if any
Pace(l, period, s, end) ==
    LET elapsed == end - s
    IN  IF elapsed < period
        THEN /\ pc' = [pc EXCEPT ![l] = "sleep"]
             /\ wake' = [wake EXCEPT ![l] = end + (period - elapsed)]
        ELSE /\ pc' = [pc EXCEPT ![l] = "ready"]
             /\ wake' = [wake EXCEPT ![l] = end]

Sleep(l, period) == Pace(l, period, start_time[l], now)

\* the draws of random.randint(60, hours_ahead * 3600): both ends of the range
RandomSeconds == {MinAhead, Horizon}

\* datetime.now() is read in ClockResolution-ths of a time unit
ClockResolution == 4

\* int(round(x)) for x = q / ClockResolution: the nearest integer, a tie goes
\* to the even one
PyRound(q) ==
    LET lo == q \div ClockResolution
        rem == q % ClockResolution
    IN  IF 2 * rem < ClockResolution THEN lo
        ELSE IF 2 * rem > ClockResolution THEN lo + 1
        ELSE IF lo % 2 = 0 THEN lo ELSE lo + 1

\* get_random_future_timestamp with int(timestamp) in place of
\* int(round(timestamp))
get_random_future_timestamp_truncated(clock, random_seconds) ==
    (clock + random_seconds * ClockResolution) \div ClockResolution

\* get_random_future_timestamp: int(round(now + randint(60, hours_ahead*3600)));
\* clock is the reading of datetime.now() in ClockResolution-ths
get_random_future_timestamp(clock, random_seconds) ==
    PyRound(clock + random_seconds * ClockResolution)

\* send_request up to its await of asyncio.gather
SendRequestStart(random_seconds, query_ok) ==
    /\ Due("send_request")
    /\ Turn("send_request")
    /\ Len(prices) < MaxTasks
    /\ start_time' = [start_time EXCEPT !["send_request"] = now]
    /\ UNCHANGED input
    /\ IF ~query_ok \/ ~Registered(ledger.keys)
       THEN /\ Raise("send_request")
            /\ UNCHANGED <<now, prices, predictions, ledger, wake, round,
                           lastRound, scoring>>
       ELSE LET modules_info == ModulesInfo(ledger.addrs, ledger.keys)
                timestamp == get_random_future_timestamp(now * ClockResolution,
                                                         random_seconds)
            IN  /\ prices' = insert_into_prices(prices, timestamp, category, pair)
                /\ IF DOMAIN modules_info = {}
                   THEN /\ pc' = [pc EXCEPT !["send_request"] = "sleep"]
                        /\ wake' = [wake EXCEPT !["send_request"] =
                                       now + iteration_interval]
                        /\ lastRound' = [state |-> "done", ts |-> timestamp,
                                         info |-> modules_info, failed |-> {},
                                         returned |-> EmptyFun,
                                         first |-> Len(predictions) + 1,
                                         order |-> <<>>]
                        /\ UNCHANGED round
                   ELSE /\ pc' = [pc EXCEPT !["send_request"] = "await"]
                        /\ round' = [ts |-> timestamp, info |-> modules_info,
                                     arrived |-> <<>>]
                        /\ UNCHANGED <<wake, lastRound>>
                /\ UNCHANGED <<now, predictions, ledger, scoring>>

\* send_request after asyncio.gather returned: the replies are stored.
\* resp: the results of asyncio.gather, by peer; nothing reads a reply before
\* asyncio.gather returns, and SpecRound lets them arrive one by one
SendRequestGather(resp) ==
    /\ pc["send_request"] = "await"
    /\ Turn("send_request")
    /\ \A l \in Loops : pc[l] # "new"
    /\ LET res == StoreAnswers(predictions, DOMAIN round.info, round.info,
                               resp, round.ts)
       IN  /\ predictions' = res.tbl
           /\ lastRound' = [state |-> IF res.raised THEN "aborted" ELSE "done",
                            ts |-> round.ts, info |-> round.info,
                            failed |-> Failed(resp),
                            returned |-> [id \in DOMAIN resp \ Failed(resp) |->
                                             resp[id].a],
                            first |-> Len(predictions) + 1,
                            order |-> [x \in DOMAIN round.arrived |->
                                          round.arrived[x][1]]]
           /\ IF res.raised
              THEN Raise("send_request") /\ UNCHANGED wake
              ELSE Sleep("send_request", iteration_interval)
    /\ round' = NoRound
    /\ UNCHANGED <<now, prices, ledger, start_time, scoring, input>>

\* ------------------------------------------------------------- the scoring
\* SELECT predictions.*, prices.price FROM predictions INNER JOIN prices
\* ON predictions.timestamp = prices.timestamp
\* WHERE predictions.timestamp >= ? AND prices.price IS NOT NULL
\* a joined row is <<index in predictions, index in prices>>
Joined(cutoff) ==
    {r \in (DOMAIN predictions) \X (DOMAIN prices) :
        /\ predictions[r[1]].timestamp = prices[r[2]].timestamp
        /\ predictions[r[1]].timestamp >= cutoff
        /\ prices[r[2]].price # NULL}

\* grouped_predictions[miner_key]
Grouped(J, miner_key) == {r \in J : predictions[r[1]].miner_key = miner_key}

IsMissing(r) == predictions[r[1]].prediction = Sentinel

\* float(predicted_value) raises on a text that is no number
FloatRaises(r) == ~IsMissing(r) /\ predictions[r[1]].prediction.k # "num"

\* abs(float(price) - float(predicted_value))
Difference(r) == Abs(prices[r[2]].price.v - predictions[r[1]].prediction.v)

RECURSIVE SumDifferences(_)
SumDifferences(rows) ==
    IF rows = {} THEN 0
    ELSE LET r == CHOOSE x \in rows : TRUE
         IN  Difference(r) + SumDifferences(rows \ {r})

\* differences.count(None), counted on the list the code counts it on:
\* the one from which the None values were already removed
NumNone(differences) == Cardinality({r \in differences : IsMissing(r)})

\* set_weights, lines 430-460: the raw score of one peer
average_difference(rows) ==
    LET differences == {r \in rows : ~IsMissing(r)}
        len == Cardinality(differences)
        num_none == NumNone(differences)
    IN  IF rows # {} /\ differences # {}
        THEN LET sum == SumDifferences(differences)
             IN  IF num_none > 0
                 THEN Rat(sum * len + MissingFactor * sum * num_none,
                          len * (len + num_none))
                 ELSE Rat(sum, len)
        ELSE Rat(Worst, 1)

\* exp(steepness * n / d) in fixed point, by its power series
RECURSIVE ExpSeries(_, _, _, _, _)
ExpSeries(n, d, k, term, acc) ==
    IF term = 0 THEN acc
    ELSE LET t == (term * steepness * n) \div (d * k)
         IN  ExpSeries(n, d, k + 1, t, acc + t)

Exp(x) == ExpSeries(x.n, x.d, 1, ExpScale, ExpScale)

\* sigmoid written as 1 - (1 + exp(-steepness * x)) = -exp(-steepness * x)
sigmoid_without_quotient(x) == -((SigmoidScale * ExpScale) \div Exp(x))

\* sigmoid: 1 - 1 / (1 + exp(-steepness * x)) = 1 / (1 + exp(steepness * x)),
\* in millionths
sigmoid(x) == (SigmoidScale * ExpScale) \div (ExpScale + Exp(x))

MinScore(raw, keys) == CHOOSE a \in {raw[k] : k \in keys} :
                           \A k \in keys : ~RatLess(raw[k], a)
MaxScore(raw, keys) == CHOOSE a \in {raw[k] : k \in keys} :
                           \A k \in keys : ~RatLess(a, raw[k])

\* which scores the normalisation of set_weights leaves at 0 (line 468)
Remaining(scores) == {k \in DOMAIN scores : scores[k].n # 0}

\* set_weights, lines 463-483: raw score -> weight (millionths)
Normalize(raw) ==
    LET scores == [k \in DOMAIN raw |->
                      IF RatEq(raw[k], Rat(Worst, 1)) THEN Rat(0, 1) ELSE raw[k]]
        remaining_scores == Remaining(scores)
    IN  IF remaining_scores = {}
        THEN [k \in DOMAIN raw |-> 0]
        ELSE LET min_score == MinScore(scores, remaining_scores)
                 max_score == MaxScore(scores, remaining_scores)
             IN  [k \in DOMAIN raw |->
                    IF k \notin remaining_scores THEN 0
                    ELSE IF RatEq(max_score, min_score)
                    THEN max_allowed_weights * WeightScale
                    ELSE sigmoid(RatNorm(RatDiv(RatSub(max_score, scores[k]),
                                                RatSub(max_score, min_score))))
                         * max_allowed_weights]

\* {v: k for k, v in id_map_key.items()}: the last id wins
KeyToId(modules_keys) ==
    [key \in {modules_keys[i] : i \in DOMAIN modules_keys} |->
        CHOOSE i \in DOMAIN modules_keys :
            /\ modules_keys[i] = key
            /\ \A j \in DOMAIN modules_keys : modules_keys[j] = key => j <= i]

\* set_weights, lines 489-491: the scores by numeric id
ScoresById(scores, modules_keys) ==
    LET key_to_id == KeyToId(modules_keys)
        keys == {k \in DOMAIN scores : k \in DOMAIN key_to_id}
    IN  [id \in {key_to_id[k] : k \in keys} |->
            scores[CHOOSE k \in keys : key_to_id[k] = id]]

\* _set_weights without its filter of the 0 weights
_set_weights_unfiltered(score_dict) == score_dict

\* _set_weights: the uids and weights it passes to client.vote
_set_weights(score_dict) ==
    [uid \in {u \in DOMAIN score_dict : score_dict[u] # 0} |-> score_dict[uid]]

\* one scoring cycle; it has no suspension point
SetWeights(query_ok, vote_ok) ==
    /\ Due("set_weights")
    /\ Turn("set_weights")
    /\ pc["send_request"] # "new"
    /\ start_time' = [start_time EXCEPT !["set_weights"] = now]
    /\ LET cutoff == now - weighting_period - GraceBuffer
           J == Joined(cutoff)
           keys == {predictions[r[1]].miner_key : r \in J}
           stats == [k \in keys |->
                       [n |-> Cardinality({r \in Grouped(J, k) : ~IsMissing(r)}),
                        m |-> Cardinality({r \in Grouped(J, k) : IsMissing(r)}),
                        sum |-> SumDifferences({r \in Grouped(J, k) : ~IsMissing(r)})]]
           raw == [k \in keys |-> average_difference(Grouped(J, k))]
           scores == Normalize(raw)
           votes == _set_weights(ScoresById(scores, ledger.keys))
       IN  IF \E r \in J : FloatRaises(r)
           THEN /\ Raise("set_weights")
                /\ UNCHANGED <<wake, scoring>>
           ELSE IF keys = {}
           THEN /\ scoring' = [ran |-> TRUE, at |-> now, stats |-> stats,
                               raw |-> raw, scores |-> scores,
                               voted |-> FALSE, vote |-> EmptyFun]
                /\ pc' = [pc EXCEPT !["set_weights"] = "sleep"]
                /\ wake' = [wake EXCEPT !["set_weights"] = now + weighting_period]
           ELSE IF ~query_ok
           THEN /\ Raise("set_weights")
                /\ scoring' = [ran |-> TRUE, at |-> now, stats |-> stats,
                               raw |-> raw, scores |-> scores,
                               voted |-> FALSE, vote |-> EmptyFun]
                /\ UNCHANGED wake
           ELSE /\ scoring' = [ran |-> TRUE, at |-> now, stats |-> stats,
                               raw |-> raw, scores |-> scores,
                               voted |-> TRUE, vote |-> votes]
                /\ IF vote_ok
                   THEN /\ pc' = [pc EXCEPT !["set_weights"] = "sleep"]
                        /\ wake' = [wake EXCEPT !["set_weights"] =
                                       now + weighting_period]
                   ELSE Raise("set_weights") /\ UNCHANGED wake
    /\ UNCHANGED <<now, prices, predictions, ledger, round, lastRound, input>>

\* ------------------------------------------------------- the truth backfill
\* what fetch_real_data does: a close price, None, or an exception of
\* requests.get
FetchOutcomes == [o : {"ok"}, v : Values] \cup
                 [o : {"non200", "error", "empty", "raise"}, v : {0}]

fetch_real_data(outcome) == IF outcome.o = "ok" THEN PyNum(outcome.v) ELSE PyNone

\* the SELECT below without its WHERE price IS NULL
Pending_any_row == DOMAIN prices

\* SELECT * FROM prices WHERE price IS NULL ORDER BY timestamp ASC LIMIT 1
Pending == {i \in DOMAIN prices : prices[i].price = NULL}
NoPendingTask == \A i \in DOMAIN prices : prices[i].price # NULL
NextPending ==
    CHOOSE i \in Pending :
        \A j \in Pending : \/ prices[i].timestamp < prices[j].timestamp
                           \/ prices[i].timestamp = prices[j].timestamp /\ i <= j

\* get_price_loop without its UPDATE: the fetched price is dropped
UpdatePrice_dropped(tbl, real_data, timestamp, cat, pr) == tbl

\* UPDATE prices SET price = ? WHERE timestamp = ? AND category = ? AND pair = ?
UpdatePrice(tbl, real_data, timestamp, cat, pr) ==
    [i \in DOMAIN tbl |->
        IF tbl[i].timestamp = timestamp /\ tbl[i].category = cat /\ tbl[i].pair = pr
        THEN [tbl[i] EXCEPT !.price = real_data]
        ELSE tbl[i]]

\* how long requests.get keeps the thread: it is no suspension point
Durations == 0..MaxBlock

\* one iteration of get_price_loop; it has no suspension point before its
\* sleep, so the clock advances by the duration of the oracle call within it
GetPrice(outcome, duration) ==
    /\ Due("get_price")
    /\ Turn("get_price")
    /\ pc["set_weights"] # "new"
    /\ start_time' = [start_time EXCEPT !["get_price"] = now]
    /\ IF Pending = {}
       THEN /\ duration = 0 /\ outcome.o = "empty"
            /\ Pace("get_price", get_real_data_interval, now, now)
            /\ UNCHANGED <<now, prices>>
       ELSE LET record == prices[NextPending]
            IN  /\ now + duration <= MaxTime
                /\ now' = now + duration
                /\ IF outcome.o = "raise"
                   THEN Raise("get_price") /\ UNCHANGED <<wake, prices>>
                   ELSE /\ prices' = UpdatePrice(prices, fetch_real_data(outcome),
                                                 record.timestamp,
                                                 record.category, record.pair)
                        /\ Pace("get_price", get_real_data_interval, now,
                                now + duration)
    /\ UNCHANGED <<predictions, ledger, round, lastRound, scoring, input>>

\* ------------------------------------------------------------ the scheduler
\* validation_loop creates the three tasks in the order send_request_loop,
\* set_weights_loop, get_price_loop; their first steps run in that order
\* (guards pc[...] # "new") before any reply of a peer is handled.
\* asyncio.gather re-raises the first exception in validation_loop and
\* asyncio.run cancels the tasks that are left
Shutdown ==
    /\ \E l \in Loops : pc[l] = "crashed"
    /\ \E l \in Loops : pc[l] \in {"new", "sleep", "await", "ready"}
    /\ pc' = [l \in Loops |-> IF pc[l] = "crashed" THEN "crashed" ELSE "cancelled"]
    /\ UNCHANGED <<now, prices, predictions, ledger, start_time, wake, round,
                   lastRound, scoring, input>>

\* the clock advances when no loop is due; a peer call ends within call_timeout
Tick ==
    /\ Running
    /\ now < MaxTime
    /\ ~Due("set_weights") /\ ~Due("get_price")
    /\ ~(Due("send_request") /\ Len(prices) < MaxTasks)
    /\ pc["send_request"] = "await" => now - start_time["send_request"] < call_timeout
    /\ now' = now + 1
    /\ UNCHANGED <<prices, predictions, ledger, pc, start_time, wake, round,
                   lastRound, scoring, input>>

Next ==
    \/ \E random_seconds \in RandomSeconds, query_ok \in BOOLEAN :
           SendRequestStart(random_seconds, query_ok)
    \/ \E resp \in [DOMAIN round.info -> Responses] : SendRequestGather(resp)
    \/ \E query_ok \in BOOLEAN, vote_ok \in BOOLEAN : SetWeights(query_ok, vote_ok)
    \/ \E outcome \in FetchOutcomes, duration \in Durations :
           GetPrice(outcome, duration)
    \/ Shutdown
    \/ Tick

Spec == Init /\ [][Next]_vars

\* ------------------------------------------- one scoring cycle on any store
\* predictions.db outlives the process: a scoring cycle may find any store
\* that earlier rounds have left.  In the first round the peers A, B and C
\* were polled, in the later ones A alone.  The timestamps lie at and right
\* before the cutoff of the cycle.
ScoreTime == weighting_period + GraceBuffer + 1
PolledKeys(i) == IF i = 1 THEN <<"A", "B", "C">> ELSE <<"A">>
StoredAnswers == {Sentinel} \cup {PyNum(x) : x \in 1..MaxAnswer}
StoredPrices == {NULL} \cup {PyNum(x) : x \in Values}
StoredTimestamps == {ScoreTime - weighting_period - GraceBuffer - 1,
                     ScoreTime - weighting_period - GraceBuffer}

RECURSIVE PersistedPredictions(_, _, _)
PersistedPredictions(i, ts, ans) ==
    IF i = 0 THEN <<>>
    ELSE PersistedPredictions(i - 1, ts, ans) \o
         [j \in 1..Len(PolledKeys(i)) |->
             [timestamp |-> ts[i], miner_key |-> PolledKeys(i)[j],
              prediction |-> ans[i][j], category |-> category, pair |-> pair]]

InitScoring ==
    /\ now = ScoreTime
    /\ \E n \in 1..MaxScoredTasks :
         \E ts \in [1..n -> StoredTimestamps],
            pr \in [1..n -> StoredPrices],
            ans \in [1..n -> [1..3 -> StoredAnswers]] :
             /\ \A i \in 2..n : ans[i][2] = Sentinel /\ ans[i][3] = Sentinel
             /\ prices = [i \in 1..n |->
                             [timestamp |-> ts[i], category |-> category,
                              pair |-> pair, price |-> pr[i]]]
             /\ predictions = PersistedPredictions(n, ts, ans)
    /\ ledger \in {RegThree, RegNormal}
    /\ pc = [l \in Loops |-> "sleep"]
    /\ start_time = [l \in Loops |-> ScoreTime - weighting_period]
    /\ wake = [l \in Loops |-> ScoreTime]
    /\ round = NoRound
    /\ lastRound = NoLastRound
    /\ scoring = NoScoring
    /\ input = NoInput

NextScoring ==
    \E query_ok \in BOOLEAN, vote_ok \in BOOLEAN : SetWeights(query_ok, vote_ok)

SpecScoring == InitScoring /\ [][NextScoring]_vars

\* ------------------------------------------------ single calls on any input
\* get_miner_prompt and insert_prediction, each applied once to arguments
\* drawn from bounded sets: any reading of the clock, any draw of
\* random.randint, any value a peer's reply can carry under "answer"
InitCalls ==
    /\ now \in 0..MaxTime
    /\ prices = <<>>
    /\ predictions = <<>>
    /\ ledger = RegNormal
    /\ pc = [l \in Loops |-> "new"]
    /\ start_time = [l \in Loops |-> now]
    /\ wake = [l \in Loops |-> now]
    /\ round = NoRound
    /\ lastRound = NoLastRound
    /\ scoring = NoScoring
    /\ input \in [clock : {now * ClockResolution + f :
                              f \in 0..(ClockResolution - 1)},
                  random_seconds : MinAhead..Horizon,
                  prediction : Answers]

\* get_miner_prompt: draw the timestamp and save the task
get_miner_prompt ==
    /\ pc["send_request"] = "new"
    /\ LET timestamp == get_random_future_timestamp(input.clock,
                                                    input.random_seconds)
       IN  /\ prices' = insert_into_prices(prices, timestamp, category, pair)
           /\ round' = [ts |-> timestamp, info |-> (1 :> "A"), arrived |-> <<>>]
    /\ pc' = [pc EXCEPT !["send_request"] = "await"]
    /\ UNCHANGED <<now, predictions, ledger, start_time, wake, lastRound,
                   scoring, input>>

\* one call of insert_prediction; c.execute raises on a value it cannot bind
InsertPrediction ==
    /\ pc["send_request"] = "await"
    /\ IF Bindable(NormalizePrediction(input.prediction))
       THEN /\ predictions' = insert_prediction(predictions, round.ts,
                                                round.info[1], input.prediction,
                                                category, pair)
            /\ pc' = [pc EXCEPT !["send_request"] = "sleep"]
       ELSE /\ Raise("send_request")
            /\ UNCHANGED predictions
    /\ UNCHANGED <<now, prices, ledger, start_time, wake, round, lastRound,
                   scoring, input>>

NextCalls == get_miner_prompt \/ InsertPrediction

SpecCalls == InitCalls /\ [][NextCalls]_vars

\* ------------------------------------------ a start on a store left behind
\* the process starts (asyncio.run) while predictions.db holds one task of
\* an earlier run, backfilled, with the answers of the peers A and B, or
\* with the answer of A alone: the earlier run ended when sqlite3 could not
\* bind the reply of B.  lastRound is that round of the earlier run.
RestartAnswers == {<<PyNum(1), Sentinel>>, <<PyNum(2), PyNum(1)>>}
InitRestart ==
    /\ now = 0
    /\ prices = <<[timestamp |-> 0, category |-> category, pair |-> pair,
                   price |-> PyNum(1)]>>
    /\ \E ans \in RestartAnswers, stored \in 1..2 :
           /\ predictions = [j \in 1..stored |->
                  [timestamp |-> 0, miner_key |-> <<"A", "B">>[j],
                   prediction |-> ans[j], category |-> category, pair |-> pair]]
           /\ lastRound =
                  [state |-> IF stored = 2 THEN "done" ELSE "aborted",
                   ts |-> 0, info |-> (1 :> "A" @@ 2 :> "B"),
                   failed |-> {j \in 1..2 : j > stored \/ ans[j] = Sentinel},
                   returned |-> [j \in {i \in 1..stored : ans[i] # Sentinel} |->
                                    ans[j]],
                   first |-> 1, order |-> <<>>]
    /\ ledger \in {RegNormal, RegNoVal}
    /\ pc = [l \in Loops |-> "new"]
    /\ start_time = [l \in Loops |-> 0]
    /\ wake = [l \in Loops |-> 0]
    /\ round = NoRound
    /\ scoring = NoScoring
    /\ input = NoInput

SpecRestart == InitRestart /\ [][Next]_vars

\* ------------------------------------------ one round, reply by reply
\* asyncio.gather wraps every coroutine of send_request's list in a task
\* before send_request is suspended: all calls are under way, and each ends
\* on its own, in any order, within call_timeout
Arrived(arrived) == {arrived[x][1] : x \in DOMAIN arrived}

\* the results taken as they come: the x-th reply to arrive is given to the
\* x-th peer of the list
Replies_as_completed(arrived) ==
    [id \in Arrived(arrived) |->
        arrived[Cardinality({j \in Arrived(arrived) : j <= id})][2]]

\* the results of asyncio.gather: by peer, in the order of the list of
\* coroutines, whatever the order of arrival
Replies(arrived) ==
    [id \in Arrived(arrived) |->
        arrived[CHOOSE x \in DOMAIN arrived : arrived[x][1] = id][2]]

\* client.call of the peer id ends: with a reply, an exception or a timeout
PeerReply(id, reply) ==
    /\ pc["send_request"] = "await"
    /\ id \in DOMAIN round.info \ Arrived(round.arrived)
    /\ round' = [round EXCEPT !.arrived = Append(@, <<id, reply>>)]
    /\ UNCHANGED <<now, prices, predictions, ledger, pc, start_time, wake,
                   lastRound, scoring, input>>

\* asyncio.gather returns when the last call has ended
SendRequestGatherArrived ==
    /\ Arrived(round.arrived) = DOMAIN round.info
    /\ SendRequestGather(Replies(round.arrived))

\* the two other loops have run their first iteration and sleep
InitRound ==
    /\ now = 0
    /\ prices = <<>>
    /\ predictions = <<>>
    /\ ledger \in {RegNormal, RegThree, RegAddrs}
    /\ pc = [l \in Loops |-> IF l = "send_request" THEN "new" ELSE "sleep"]
    /\ start_time = [l \in Loops |-> 0]
    /\ wake = [l \in Loops |-> IF l = "send_request" THEN 0 ELSE Period(l)]
    /\ round = NoRound
    /\ lastRound = NoLastRound
    /\ scoring = NoScoring
    /\ input = NoInput

NextRound ==
    \/ \E random_seconds \in RandomSeconds, query_ok \in BOOLEAN :
           SendRequestStart(random_seconds, query_ok)
    \/ \E id \in DOMAIN round.info, reply \in Responses : PeerReply(id, reply)
    \/ SendRequestGatherArrived

SpecRound == InitRound /\ [][NextRound]_vars

\* ------------------------------------------------- the loops without end
\* Normal operation: the validator is registered, no query of the ledger, no
\* vote and no call of the oracle raises, and the peers answer with a number
\* or not at all.  The oracle may still answer without a price, and may take
\* its time.
NormalResponses == {r \in Responses :
                       r.o = "timeout" \/ (r.o = "ok" /\ r.a.k = "num")}
NormalOutcomes == {o \in FetchOutcomes : o.o # "raise"}

\* time.time() has no end and the program only compares times and takes
\* their differences, so the origin of the clock is free: when the clock
\* reaches MaxTime every time of the state is counted from an origin one
\* unit later.  From then on the clock reads MaxTime - 1 or more: a time
\* further back than Oldest lies before the window of every scoring cycle to
\* come and more than every period back, and is kept as Oldest.
Oldest == (MaxTime - 1) - (weighting_period + GraceBuffer) - 1
Shift(t) == IF t > Oldest THEN t - 1 ELSE Oldest

Rebase ==
    /\ now = MaxTime
    /\ now' = now - 1
    /\ wake' = [l \in Loops |-> Shift(wake[l])]
    /\ start_time' = [l \in Loops |-> Shift(start_time[l])]
    /\ prices' = [i \in DOMAIN prices |->
                     [prices[i] EXCEPT !.timestamp = Shift(@)]]
    /\ predictions' = [i \in DOMAIN predictions |->
                          [predictions[i] EXCEPT !.timestamp = Shift(@)]]
    /\ round' = [round EXCEPT !.ts = Shift(@)]
    /\ lastRound' = [lastRound EXCEPT !.ts = Shift(@)]
    /\ scoring' = [scoring EXCEPT !.at = Shift(@)]
    /\ UNCHANGED <<ledger, pc, input>>

\* the start: predictions.db holds the pending task that a run stopped at
\* the time 0 had created with the largest draw
InitLive ==
    /\ now = 0
    /\ prices = <<[timestamp |-> Horizon, category |-> category,
                   pair |-> pair, price |-> NULL]>>
    /\ predictions = <<>>
    /\ ledger = RegNoAddr
    /\ pc = [l \in Loops |-> "new"]
    /\ start_time = [l \in Loops |-> 0]
    /\ wake = [l \in Loops |-> 0]
    /\ round = NoRound
    /\ lastRound = NoLastRound
    /\ scoring = NoScoring
    /\ input = NoInput

SendRequestStartLive ==
    \E random_seconds \in RandomSeconds : SendRequestStart(random_seconds, TRUE)
SendRequestGatherLive ==
    \E resp \in [DOMAIN round.info -> NormalResponses] : SendRequestGather(resp)
SetWeightsLive == SetWeights(TRUE, TRUE)
GetPriceLive ==
    \E outcome \in NormalOutcomes, duration \in Durations :
        GetPrice(outcome, duration)
\* the oracle answers the call with a price
GetPriceFound ==
    \E outcome \in {o \in NormalOutcomes : o.o = "ok"}, duration \in Durations :
        GetPrice(outcome, duration) /\ ~NoPendingTask

NextLive ==
    \/ SendRequestStartLive
    \/ SendRequestGatherLive
    \/ SetWeightsLive
    \/ GetPriceLive
    \/ Tick
    \/ Rebase

\* the event loop runs every coroutine that can run, and time passes
FairLoops ==
    /\ WF_vars(SendRequestStartLive)
    /\ WF_vars(SendRequestGatherLive)
    /\ WF_vars(SetWeightsLive)
    /\ WF_vars(GetPriceLive)
    /\ WF_vars(Tick)
    /\ WF_vars(Rebase)

SpecLive == InitLive /\ [][NextLive]_vars /\ FairLoops

\* as SpecLive, with an oracle that does not refuse the price of a task for
\* ever
SpecLiveOracle == SpecLive /\ SF_vars(GetPriceFound)

TypeOK ==
    /\ now \in Nat
    /\ \A i \in DOMAIN prices : prices[i].price.k \in {"none", "num"}
    /\ \A l \in Loops :
           pc[l] \in {"new", "sleep", "await", "ready", "crashed", "cancelled"}

\* ================================================================ claims
Ceiling == max_allowed_weights * WeightScale

\* the mean of the non-missing differences of a scored peer
Mean(k) == Rat(scoring.stats[k].sum, scoring.stats[k].n)

\* the peers with at least one non-missing answer in the window of the cycle
Qualifying == {k \in DOMAIN scoring.stats : scoring.stats[k].n >= 1}

\* C1: in a scoring cycle where no scored peer has a missing answer and the
\* mean differences are pairwise distinct, the weight is strictly decreasing
\* in the mean difference (smallest mean: highest weight, largest: lowest).
C1_WeightDecreasesWithDifference ==
    (/\ scoring.ran
     /\ \A k \in DOMAIN scoring.stats :
            scoring.stats[k].m = 0 /\ scoring.stats[k].n >= 1
     /\ \A k1, k2 \in DOMAIN scoring.stats :
            k1 # k2 => ~RatEq(Mean(k1), Mean(k2)))
    => \A k1, k2 \in DOMAIN scoring.stats :
           RatLess(Mean(k1), Mean(k2)) => scoring.scores[k1] > scoring.scores[k2]

\* the raw score the missing-answer policy gives: (sum + m*5*mean) / (n + m)
PenalisedScore(st) ==
    Rat(st.sum * st.n + MissingFactor * st.sum * st.m, st.n * (st.n + st.m))

\* C2: a peer with n >= 1 non-missing differences and m >= 1 missing answers
\* has the raw score (sum + m*5*mean) / (n + m); with a mean > 0 that is
\* strictly more than the raw score of a peer with the same mean and no
\* missing answer.
C2_MissingAnswersInflateScore ==
    scoring.ran =>
        /\ \A k \in DOMAIN scoring.stats :
               (scoring.stats[k].n >= 1 /\ scoring.stats[k].m >= 1)
               => RatEq(scoring.raw[k], PenalisedScore(scoring.stats[k]))
        /\ \A k1, k2 \in Qualifying :
               (/\ scoring.stats[k1].m >= 1
                /\ scoring.stats[k2].m = 0
                /\ scoring.stats[k1].sum > 0
                /\ RatEq(Mean(k1), Mean(k2)))
               => RatLess(scoring.raw[k2], scoring.raw[k1])

\* the rows of predictions the last dispatch round has stored
RoundRows == SubSeq(predictions, lastRound.first, Len(predictions))

RECURSIVE Ascending(_)
Ascending(ids) ==
    IF ids = {} THEN <<>>
    ELSE LET id == CHOOSE i \in ids : \A j \in ids : i <= j
         IN  <<id>> \o Ascending(ids \ {id})

\* one Answer per polled peer: the sentinel for a failed peer, the returned
\* value for the others
RoundAnswers ==
    LET ids == Ascending(DOMAIN lastRound.info)
    IN  [x \in 1..Len(ids) |->
            [timestamp |-> lastRound.ts, miner_key |-> lastRound.info[ids[x]],
             prediction |-> IF ids[x] \in lastRound.failed
                            THEN Sentinel
                            ELSE lastRound.returned[ids[x]],
             category |-> category, pair |-> pair]]

\* C3: a dispatch round stores exactly one Answer per polled peer, the
\* sentinel -1 for every peer whose call raised, timed out or returned a
\* malformed reply and the returned value for the others; no reply aborts
\* the round.
C3_OneAnswerPerPolledPeer ==
    lastRound.state # "none" =>
        /\ lastRound.state = "done"
        /\ RoundRows = RoundAnswers

\* C4: once the price of a row of prices is set it never changes and never
\* returns to NULL, and a step changes the price of at most one row.
C4_ObservedValueWrittenOnce ==
    [][/\ \A i \in DOMAIN prices :
              prices[i].price # NULL => prices'[i].price = prices[i].price
       /\ Cardinality({i \in DOMAIN prices : prices'[i].price # prices[i].price}) <= 1
      ]_vars

\* C5: prices holds at most one row per timestamp.
C5_OneTaskPerTimestamp ==
    \A i, j \in DOMAIN prices :
        i # j => prices[i].timestamp # prices[j].timestamp

\* C6: predictions holds at most one row per (timestamp, miner_key).
C6_OneAnswerPerTimestampAndPeer ==
    \A i, j \in DOMAIN predictions :
        i # j => \/ predictions[i].timestamp # predictions[j].timestamp
                 \/ predictions[i].miner_key # predictions[j].miner_key

PeerKeys == {"A", "B", "C"}

\* the ids of the identity key k in the ledger
IdsOf(k) == {id \in DOMAIN ledger.keys : ledger.keys[id] = k}

\* C7: a peer without a non-missing answer in the window of a scoring cycle
\* (no joined row, or only sentinel answers) has weight 0 and none of its ids
\* is among the uids passed to client.vote.
C7_NoAnswerNoWeight ==
    scoring.ran =>
        \A k \in PeerKeys \ Qualifying :
            /\ k \in DOMAIN scoring.scores => scoring.scores[k] = 0
            /\ \A id \in DOMAIN scoring.vote : id \notin IdsOf(k)

\* a vote was cast for some peer while a registered scored peer had only
\* sentinel answers in the window
C7_Witness ==
    /\ scoring.voted
    /\ DOMAIN scoring.vote # {}
    /\ \E k \in DOMAIN scoring.stats :
           scoring.stats[k].n = 0 /\ scoring.stats[k].m >= 1 /\ IdsOf(k) # {}

\* C8: if all peers with a non-missing answer in the window have the same raw
\* score (a single such peer, or the common score 0, included), each of them
\* receives exactly the ceiling weight.
C8_EqualScoresGetCeiling ==
    (/\ scoring.ran
     /\ \A k1, k2 \in Qualifying : RatEq(scoring.raw[k1], scoring.raw[k2]))
    => \A k \in Qualifying : scoring.scores[k] = Ceiling

\* C9: after a round in which peer A answered with a value and peer B did not
\* answer, the backfill of the task and a scoring cycle over that task alone,
\* A is submitted with a weight > 0 and B has weight 0 <= the weight of A.
C9_EndToEnd ==
    (/\ scoring.voted
     /\ DOMAIN scoring.stats = {"A", "B"}
     /\ scoring.stats["A"] .n = 1 /\ scoring.stats["A"].m = 0
     /\ scoring.stats["B"].n = 0 /\ scoring.stats["B"].m = 1
     /\ IdsOf("A") # {})
    => /\ \E id \in IdsOf("A") :
              id \in DOMAIN scoring.vote /\ scoring.vote[id] > 0
       /\ scoring.scores["A"] > 0
       /\ scoring.scores["B"] = 0
       /\ scoring.scores["B"] <= scoring.scores["A"]

\* C10: an exception in one iteration ends no loop: the loop that raised and
\* the two others keep running.
C10_LoopsSurviveExceptions ==
    \A l \in Loops : pc[l] \in {"new", "sleep", "await", "ready"}

C14_SentinelOrUnchanged ==
    pc["send_request"] \in {"sleep", "crashed"} =>
        /\ Len(predictions) = 1
        /\ predictions[1].prediction =
               IF input.prediction \in {PyNone, PyText("None"), PyText("")}
               THEN Sentinel
               ELSE input.prediction

\* the sample addresses that hold a substring of the form
\* d{1,3}.d{1,3}.d{1,3}.d{1,3}:d+ (d a digit)
WithIPv4Port == {GoodAddr, UrlAddr, LongOctetAddr}

\* the registered ids with an identity key other than the validator's and
\* with such an address
Eligible ==
    {id \in DOMAIN ledger.keys :
        /\ id \in DOMAIN ledger.addrs
        /\ ledger.addrs[id] \in WithIPv4Port
        /\ ledger.keys[id] # ValKey}

\* C18: the peers polled in a dispatch round are exactly the registered ids
\* that have an identity key, an address holding the IPv4:port pattern and
\* an identity other than the validator's; no row of predictions carries the
\* validator's identity, and no scoring cycle computes or submits a weight
\* for the validator.
C18_PolledPeers ==
    /\ pc["send_request"] = "await" =>
           /\ DOMAIN round.info = Eligible
           /\ \A id \in Eligible : round.info[id] = ledger.keys[id]
    /\ lastRound.state # "none" =>
           /\ DOMAIN lastRound.info = Eligible
           /\ \A id \in Eligible : lastRound.info[id] = ledger.keys[id]
    /\ \A i \in DOMAIN predictions : predictions[i].miner_key # ValKey
    /\ ValKey \notin DOMAIN scoring.scores
    /\ \A id \in DOMAIN scoring.vote : ledger.keys[id] # ValKey

\* a round polled ids 1 and 6 of a ledger where the other ids have no key, no
\* address, an address without the pattern or the validator's key, and a
\* scoring cycle then scored the answers
C18_Witness ==
    /\ ledger = RegAddrs
    /\ lastRound.state = "done"
    /\ DOMAIN lastRound.info = {1, 6}
    /\ scoring.voted
    /\ DOMAIN scoring.scores = {"A", "C"}

\* a step that ends an iteration of the loop l
IterationEnds(l) ==
    /\ pc'[l] \in {"sleep", "ready"}
    /\ pc[l] = "await" \/ start_time'[l] # start_time[l] \/ pc[l] = "new"

\* a step that starts an iteration of the loop l after an earlier one
IterationStarts(l) ==
    /\ pc[l] \in {"sleep", "ready"}
    /\ start_time'[l] # start_time[l]

\* C20: for each loop with period p, an iteration that starts at s and takes
\* e < p is followed by a sleep of p - e and the next iteration starts at
\* s + p; one that takes e >= p is followed by no sleep and the next iteration
\* starts at s + e; consecutive starts are at least p apart.
C20_DriftCorrectingPace ==
    [][\A l \in Loops :
          /\ IterationEnds(l) =>
                 LET s == start_time'[l]
                     e == now' - s
                 IN  /\ e < Period(l) =>
                            pc'[l] = "sleep" /\ wake'[l] = s + Period(l)
                     /\ e >= Period(l) =>
                            pc'[l] = "ready" /\ wake'[l] = s + e
          /\ IterationStarts(l) =>
                 /\ now = wake[l]
                 /\ now >= start_time[l] + Period(l)
      ]_vars

\* a step of get_price_loop: one iteration
GetPriceStep ==
    /\ pc["get_price"] \in {"new", "sleep", "ready"}
    /\ \/ pc'["get_price"] = "crashed"
       \/ wake'["get_price"] # wake["get_price"]
       \/ start_time'["get_price"] # start_time["get_price"]

\* C11: when the oracle call for the selected pending task fails (network
\* failure, non-200 response, error payload, empty result), fetch_real_data
\* returns None without raising, the backfill loop goes on, the price of the
\* task stays NULL and a task of the same timestamp is the one selected
\* next.
C11_OracleFailureIsRetried ==
    [][(/\ GetPriceStep
        /\ ~NoPendingTask
        /\ \/ pc'["get_price"] = "crashed"
           \/ prices'[NextPending].price = NULL)
       => /\ pc'["get_price"] \in {"sleep", "ready"}
          /\ prices'[NextPending].price = NULL
          /\ ~NoPendingTask'
          /\ prices'[NextPending'].timestamp = prices[NextPending].timestamp
      ]_vars

C12_NoVoteWhenNotRegistered ==
    ~Registered(ledger.keys) => ~scoring.voted

\* C15: every weight passed to client.vote is a whole number, the rounded
\* product of the normalized score and the ceiling, and at least 1: a peer
\* whose rounded weight is 0 is not among the uids.
C15_SubmittedWeightsAreIntegers ==
    scoring.voted =>
        \A id \in DOMAIN scoring.vote :
            /\ scoring.vote[id] % WeightScale = 0
            /\ scoring.vote[id] >= WeightScale

Usable(k, t) ==
    {i \in DOMAIN predictions :
        /\ predictions[i].miner_key = k
        /\ predictions[i].timestamp >= t - weighting_period - GraceBuffer
        /\ \E j \in DOMAIN prices :
               /\ prices[j].timestamp = predictions[i].timestamp
               /\ prices[j].price # NULL}

\* |price - prediction| of a usable row
UsableDifference(i) ==
    LET j == CHOOSE x \in DOMAIN prices :
                 /\ prices[x].timestamp = predictions[i].timestamp
                 /\ prices[x].price # NULL
    IN  Abs(prices[j].price.v - predictions[i].prediction.v)

RECURSIVE SumUsable(_)
SumUsable(rows) ==
    IF rows = {} THEN 0
    ELSE LET i == CHOOSE x \in rows : TRUE
         IN  UsableDifference(i) + SumUsable(rows \ {i})

\* C17: a scoring cycle at the time now scores exactly the peers with a row
\* of predictions whose task has a timestamp >= now - weighting_period - 180 s
\* and a price, and each such row counts once: as one missing answer or as
\* one difference; rows of pending or older tasks count for nothing.
C17_WindowJoin ==
    [][scoring' # scoring =>
          \A k \in PeerKeys \cup {ValKey} :
              /\ k \in DOMAIN scoring'.stats <=> Usable(k, now) # {}
              /\ k \in DOMAIN scoring'.stats =>
                     /\ scoring'.stats[k].n + scoring'.stats[k].m
                            = Cardinality(Usable(k, now))
                     /\ scoring'.stats[k].m
                            = Cardinality({i \in Usable(k, now) :
                                  predictions[i].prediction = Sentinel})
                     /\ scoring'.stats[k].sum
                            = SumUsable({i \in Usable(k, now) :
                                  predictions[i].prediction # Sentinel})
      ]_vars

\* C22: the price of a task is written after the fact: at the end of the
\* backfill step that gives a row of prices its price, the clock is at or
\* past the timestamp of the row; a task whose timestamp lies in the future
\* keeps its NULL.
C22_BackfillAfterTheFact ==
    [][\A i \in DOMAIN prices :
          (prices[i].price = NULL /\ prices'[i].price # NULL)
          => now' >= prices[i].timestamp
      ]_vars

\* the rows of prices whose price a step changes
Written == {i \in DOMAIN prices : prices'[i].price # prices[i].price}

\* C23: a backfill cycle writes the price of at most one task, and only of
\* a pending task whose timestamp is the smallest among the pending ones;
\* a cycle whose fetch fails writes nothing, so no pending task with a later
\* timestamp receives a price while the earliest one stays pending.
C23_EarliestPendingOnly ==
    [][/\ Cardinality(Written) <= 1
       /\ \A i \in Written :
              /\ GetPriceStep
              /\ i \in Pending
              /\ \A j \in Pending : prices[i].timestamp <= prices[j].timestamp
       /\ (GetPriceStep /\ ~NoPendingTask /\ prices'[NextPending].price = NULL)
              => Written = {}
      ]_vars

\* every order in which the replies of the sequence arrived can come
Orders(arrived) ==
    {[x \in DOMAIN arrived |-> arrived[p[x]]] :
        p \in {q \in [DOMAIN arrived -> DOMAIN arrived] :
                  \A x, y \in DOMAIN arrived : x # y => q[x] # q[y]}}

\* the step in which send_request stores the answers of its round
StoresRound == pc["send_request"] = "await" /\ lastRound' # lastRound

\* C24: while a dispatch round waits for its peers the row of its task is in
\* prices; no answer of the round is stored before the call of every polled
\* peer has ended, and only polled peers reply; the rows the round stores
\* are the same for every order in which the replies can arrive.
C24_FanOutThenStore ==
    [][/\ pc["send_request"] = "await" =>
              /\ \E i \in DOMAIN prices : prices[i].timestamp = round.ts
              /\ Arrived(round.arrived) \subseteq DOMAIN round.info
       /\ predictions' # predictions =>
              /\ StoresRound
              /\ Arrived(round.arrived) = DOMAIN round.info
       /\ StoresRound =>
              \A other \in Orders(round.arrived) :
                  predictions' = StoreAnswers(predictions, DOMAIN round.info,
                                              round.info, Replies(other),
                                              round.ts).tbl
      ]_vars

\* a round whose second peer replied before its first peer stored two
\* different answers
C24_Witness ==
    /\ lastRound.state = "done"
    /\ Len(lastRound.order) >= 2
    /\ lastRound.order[1] > lastRound.order[2]
    /\ Len(RoundRows) >= 2
    /\ RoundRows[1].prediction # RoundRows[2].prediction

\* a step in which a scoring cycle fails on float(predicted_value)
ConversionFails ==
    /\ pc["set_weights"] \in {"new", "sleep", "ready"}
    /\ pc'["set_weights"] = "crashed"
    /\ \E i \in DOMAIN predictions : predictions[i].prediction.k # "num"

\* C25: every row of predictions holds a number (the sentinel -1 included)
\* as its prediction, whatever the peers return under "answer", and no
\* scoring cycle fails on the conversion of a stored prediction.
C25_StoredAnswersAreNumeric ==
    [][/\ \A i \in DOMAIN predictions' : predictions'[i].prediction.k = "num"
       /\ ~ConversionFails
      ]_vars

\* the scored peers whose answers in the window are all missing
WorstBucket == {k \in DOMAIN scoring.stats : scoring.stats[k].n = 0}

\* C26: in a scoring cycle the peers set to weight 0 are the peers of the
\* worst bucket, those without a non-missing difference, and no others; a
\* peer whose non-missing differences are all 0 (raw score 0) has a weight
\* at least as high as the weight of every other scored peer.
C26_OnlyWorstBucketGetsZero ==
    scoring.ran =>
        /\ \A k \in DOMAIN scoring.scores :
               scoring.scores[k] = 0 <=> k \in WorstBucket
        /\ \A k \in Qualifying :
               scoring.stats[k].sum = 0 =>
                   \A other \in DOMAIN scoring.scores :
                       scoring.scores[k] >= scoring.scores[other]

\* C29: client.vote is called only with at least one uid and weight: a
\* scoring cycle in which no registered peer has a weight other than 0 does
\* not vote.
C29_NoEmptyVote ==
    scoring.voted => DOMAIN scoring.vote # {}

\* a step that starts an iteration of the dispatch loop
SendRequestStep ==
    /\ pc["send_request"] \in {"new", "sleep", "ready"}
    /\ pc'["send_request"] # "cancelled"
    /\ \/ pc'["send_request"] # pc["send_request"]
       \/ wake'["send_request"] # wake["send_request"]
       \/ start_time'["send_request"] # start_time["send_request"]

ValidatorAbsent == \A id \in DOMAIN ledger.keys : ledger.keys[id] # ValKey

\* C28: a dispatch iteration that finds the validator's identity absent from
\* the identity map raises and leaves the store as it was: no row is added
\* to prices, no peer is polled and no row is added to predictions.
C28_UnregisteredDispatchLeavesStore ==
    [][(SendRequestStep /\ ValidatorAbsent) =>
          /\ pc'["send_request"] = "crashed"
          /\ prices' = prices
          /\ predictions' = predictions
          /\ round' = round
          /\ lastRound' = lastRound
      ]_vars

\* the dispatch loop has raised on a store that holds a task and answers,
\* and the store is as it was at the start
C28_Witness ==
    /\ ValidatorAbsent
    /\ pc["send_request"] = "crashed"
    /\ Len(prices) = 1
    /\ Len(predictions) = 2
    /\ round = NoRound

\* a step that is one scoring cycle
SetWeightsStep ==
    /\ pc["set_weights"] \in {"new", "sleep", "ready"}
    /\ pc'["set_weights"] # "cancelled"
    /\ \/ pc'["set_weights"] # pc["set_weights"]
       \/ wake'["set_weights"] # wake["set_weights"]
       \/ start_time'["set_weights"] # start_time["set_weights"]

\* C27: a scoring cycle finds each dispatch round either without any of its
\* answers in predictions or with the answers of all its polled peers: the
\* rows stored since the start of the last round that has ended are none or
\* one per peer of that round, and a round under way has added nothing.
C27_ScoringSeesWholeRounds ==
    [][(SetWeightsStep /\ lastRound.state # "none") =>
          Len(RoundRows) \in {0, Cardinality(DOMAIN lastRound.info)}
      ]_vars

C21_EveryLoopKeepsIterating ==
    /\ []<><<SetWeightsLive>>_vars
    /\ []<><<GetPriceLive>>_vars
    /\ \/ []<><<SendRequestStartLive>>_vars
       \/ <>[](Len(prices) >= MaxTasks)


====
